---- MODULE Spec2Model ----
(***************************************************************************)
(* The producer side of the nvidia-applet telemetry pipeline               *)
(* (NvidiaMonitorApplet, src/unnamed/part_001): the history buffer, the    *)
(* sampling timer, the consumer process it spawns and the pipe it writes   *)
(* to.  The producer is one single-threaded event loop: every handler runs *)
(* to completion, except that the synchronous write_bytes/flush of         *)
(* _sendToMonitor suspends the whole loop while the pipe is full.          *)
(***************************************************************************)
EXTENDS Integers, Sequences, FiniteSets, TLC

\* ------------------------------------------------------------------ bounds
Null == 0

\* samples the model lets the sampling timer append
MaxSamples == 3
\* consumer processes the model lets the producer spawn
MaxProcs == 3
\* records the pipe to a consumer holds before a synchronous write blocks
PipeCap == 1
\* this.max_history_points (43200 in the source), scaled to the model's size
max_history_points == 2
\* the backlog size the consumer accepts (the spec's backlogLimit)
BacklogLimit == 2

Procs == 1..MaxProcs
TimerIds == 1..3

\* ---------------------------------------------------------- sample source
\* what parseFloat returns for a field that is no number
NaN == -1

\* Lines nvidia-smi prints: temperature, memory used, memory total,
\* utilization, fan speed, timestamp; the last line lacks the timestamp.
Lines ==
    { <<45, 2048, 8192, 30, 55, 1>>,
      <<60, 4096, 8192, 90, 70, 2>>,
      <<45, 2048, 8192, 30, 55>> }

\* Lines with a percentage above 100, memory used above memory total, and a
\* field that is no number ("[N/A]")
WideLines ==
    Lines \cup { <<45, 2048, 8192, 30, 120, 3>>,
                 <<45, 9000, 8192, 30, 55, 4>>,
                 <<45, 2048, 8192, 30, NaN, 5>> }

SourceOutcomes == {"ok", "fail", "throw"}

\* the exit statuses of a consumer process: normal shutdown, or any other
ExitStatuses == {0, 1}

\* parse_and_display: the sample pushed to the history and sent to the monitor
HistoryPoint(parts) ==
    [ gpu  |-> parts[4],
      mem  |-> IF parts[3] # NaN /\ parts[3] > 0
               THEN (IF parts[2] = NaN THEN NaN ELSE (parts[2] * 100) \div parts[3])
               ELSE 0,
      temp |-> parts[1],
      fan  |-> parts[5] ]

\* parse_and_display returns before touching anything for fewer than 6 parts
Parses(parts) == Len(parts) >= 6

VARIABLES
    history,        \* this.history
    appended,       \* every sample ever pushed to this.history, in order
    sampled,        \* the sample of every sampling tick that parsed, in order
    sampledAt,      \* how many ticks had parsed when the (running) process was spawned
    label,          \* what this._label shows: init, notfound, data, Error, Err
    settings,       \* this.settings exists: the constructor got as far as _initSettings
    removed,        \* on_applet_removed_from_panel has run
    last_output,    \* this.last_output (<<>> is the empty string)
    _monitorProc,   \* this._monitorProc: Null or the process
    _monitorStdin,  \* this._monitorStdin: Null or the pipe of that process
    _updateLoopId,  \* this._updateLoopId: Null or a GLib source id
    timers,         \* the GLib timeout sources that are pending
    procState,      \* each consumer process: unspawned, running, hung, exited
    watcher,        \* each process's wait_check_async callback: none, registered, fired
    written,        \* the records written to each running process's pipe, in order
    unread,         \* how many records sit in the pipe, written and not yet read
    snapshot,       \* this.history when the (running) process was spawned
    replayed,       \* how many records _openMonitor's replay wrote to the process
    blockedOp,      \* the handler suspended in a write: none, open, tick, display
    blockedRest,    \* the records that handler still has to send
    last,           \* the latest producer handler: which one, did a write fail,
                    \* did it call _show_err, did it call global.logError, did an
                    \* exception leave it
    props,          \* the properties the settings are bound to: this.refresh_interval,
                    \* this.encoding, this.show_temp, ...
    interval,       \* the delay, in ms, of the latest GLib.timeout_add
    visible,        \* which actors of the panel box are visible
    \* monitor.py, one consumer process seen from the inside
    sys_stdin,      \* the bytes in the pipe that sys.stdin reads, oldest first
    tosend,         \* the bytes the applet's writes have not yet put in the pipe
    hup,            \* the write end of the pipe is closed
    io_channel,     \* the bytes GLib.IOChannel has read and not yet returned
    mstate,         \* INITIALIZING, STREAMING, TERMINATED
    watch,          \* the GLib.io_add_watch source is active
    inRead,         \* on_stdin_data is inside source.read_line()
    mhistory,       \* monitor.py's self.history
    call,           \* the arguments of the calculate_coords / setup_window_position call
    coords,         \* what calculate_coords returned
    target,         \* where setup_window_position moved the window
    fed             \* the samples whose records make up the stream, in order

appletVars ==
    << history, appended, sampled, sampledAt, label, settings, removed, last_output,
       _monitorProc, _monitorStdin, _updateLoopId, timers, procState, watcher,
       written, unread, snapshot, replayed, blockedOp, blockedRest, last,
       props, interval, visible >>

monitorVars ==
    << sys_stdin, tosend, hup, io_channel, mstate, watch, inRead, mhistory, call, coords,
       target, fed >>

vars == << appletVars, monitorVars >>

\* handler op, in which no write has failed, no _show_err notification was
\* raised, nothing went to global.logError and no exception escaped
Quiet(op) ==
    [ op |-> op, failed |-> FALSE, err |-> FALSE, log |-> FALSE, fault |-> FALSE ]

\* ---------------------------------------------------- settings and display
\* values of the refresh-interval setting, in seconds
RefreshIntervals == {-1, 0, 1, 2}
\* encoding labels TextDecoder knows, and one it does not
KnownEncodings == {"UTF-8"}
Encodings == KnownEncodings \cup {"no-such-encoding"}
\* values of the *-display-mode settings
Modes == {"pie", "text"}

\* the properties _initSettings binds, at the values the model starts from
DefaultProps ==
    [ refresh_interval |-> 1, encoding |-> "UTF-8",
      show_temp |-> TRUE,
      show_memory |-> TRUE, memory_display_mode |-> "text",
      show_gpu_util |-> TRUE, gpu_display_mode |-> "text",
      show_fan_speed |-> TRUE, fan_display_mode |-> "text" ]

\* the properties with the display settings of on_update_display at any value
DisplayProps ==
    { [DefaultProps EXCEPT !.show_temp = t,
                           !.show_memory = m[1], !.memory_display_mode = m[2],
                           !.show_gpu_util = g[1], !.gpu_display_mode = g[2],
                           !.show_fan_speed = f[1], !.fan_display_mode = f[2]] :
          t \in BOOLEAN, m \in BOOLEAN \X Modes, g \in BOOLEAN \X Modes,
          f \in BOOLEAN \X Modes }

\* new TextDecoder(label) throws a RangeError for a label it does not know
TextDecoderThrows(enc) == enc \notin KnownEncodings

\* a bug: the delay taken from the setting as it is
Interval_NoFloor(r) == r * 1000

\* _updateLoop's delay: Math.max(this.refresh_interval * 1000, 500)
Interval(r) == IF r * 1000 >= 500 THEN r * 1000 ELSE 500

\* _buildUI: every actor is hidden as it is added, the temperature label is shown
Built ==
    [ _label |-> TRUE, _sep1 |-> FALSE, _memLabel |-> FALSE, _memPieChartArea |-> FALSE,
      _sep2 |-> FALSE, _gpuLabel |-> FALSE, _gpuPieChartArea |-> FALSE,
      _sep3 |-> FALSE, _fanLabel |-> FALSE, _fanPieChartArea |-> FALSE ]

\* a bug: pie mode that leaves the text label on
_updateSection_LabelStays(show, mode) ==
    [ ret |-> show, label |-> show, pieArea |-> show /\ mode = "pie" ]

\* _updateSection(show, mode, label, pieArea, textVal): what it returns and
\* which of the two actors it leaves visible
_updateSection(show, mode) ==
    IF show
    THEN IF mode = "pie"
         THEN [ ret |-> TRUE, label |-> FALSE, pieArea |-> TRUE ]
         ELSE [ ret |-> TRUE, label |-> TRUE, pieArea |-> FALSE ]
    ELSE [ ret |-> FALSE, label |-> FALSE, pieArea |-> FALSE ]

\* a bug: each separator looking at the section next to it only
Separators_Adjacent(visTemp, visMem, visGpu, visFan) ==
    [ _sep1 |-> visTemp /\ visMem,
      _sep2 |-> visMem /\ visGpu,
      _sep3 |-> visGpu /\ visFan ]

\* parse_and_display's three separators
Separators(visTemp, visMem, visGpu, visFan) ==
    [ _sep1 |-> visTemp /\ (visMem \/ visGpu \/ visFan),
      _sep2 |-> visMem /\ (visGpu \/ visFan),
      _sep3 |-> visGpu /\ visFan ]

\* parse_and_display's last test: nothing is shown
Placeholder(visTemp, visMem, visGpu, visFan) ==
    ~visTemp /\ ~visMem /\ ~visGpu /\ ~visFan

\* the actors parse_and_display leaves visible, for the properties p
Display(p) ==
    LET visTemp == p.show_temp
        mem == _updateSection(p.show_memory, p.memory_display_mode)
        gpu == _updateSection(p.show_gpu_util, p.gpu_display_mode)
        fan == _updateSection(p.show_fan_speed, p.fan_display_mode)
        sep == Separators(visTemp, mem.ret, gpu.ret, fan.ret)
    IN [ _label |-> visTemp \/ Placeholder(visTemp, mem.ret, gpu.ret, fan.ret),
         _sep1 |-> sep._sep1,
         _memLabel |-> mem.label, _memPieChartArea |-> mem.pieArea,
         _sep2 |-> sep._sep2,
         _gpuLabel |-> gpu.label, _gpuPieChartArea |-> gpu.pieArea,
         _sep3 |-> sep._sep3,
         _fanLabel |-> fan.label, _fanPieChartArea |-> fan.pieArea ]

\* the text parse_and_display leaves in this._label, which held the text old
LabelText(p, old) ==
    IF p.show_temp THEN "data"
    ELSE IF Placeholder(FALSE, p.show_memory, p.show_gpu_util, p.show_fan_speed)
         THEN "Nvidia"
         ELSE old

\* ------------------------------------------------------------------- pipe
Exited(p) == procState[p] = "exited"
Alive(p) == procState[p] \in {"running", "hung"}

\* what a handler has done to the connection so far
Ctx(proc, stdin) ==
    [ proc |-> proc, stdin |-> stdin, written |-> written, wrote |-> 0,
      failed |-> FALSE, rest |-> <<>> ]

\* the synchronous write would suspend the loop: the reader is there, the pipe is full
WouldBlock(cx) ==
    /\ cx.proc # Null
    /\ cx.stdin # Null
    /\ ~Exited(cx.stdin)
    /\ unread[cx.stdin] + cx.wrote >= PipeCap

\* a bug: the catch block that forgets this._monitorStdin = null
_sendToMonitor_KeepStdin(cx, data) ==
    IF cx.proc = Null \/ cx.stdin = Null
    THEN cx
    ELSE IF Exited(cx.stdin)
         THEN [cx EXCEPT !.proc = Null, !.failed = TRUE]
         ELSE [cx EXCEPT !.written[cx.stdin] = Append(@, data), !.wrote = @ + 1]

\* a bug: _sendToMonitor without its first test, writing through a null handle
\* into its own catch block
_sendToMonitor_NoGuard(cx, data) ==
    IF cx.proc = Null \/ cx.stdin = Null \/ Exited(cx.stdin)
    THEN [cx EXCEPT !.proc = Null, !.stdin = Null, !.failed = TRUE]
    ELSE [cx EXCEPT !.written[cx.stdin] = Append(@, data), !.wrote = @ + 1]

\* _sendToMonitor(data) on a pipe that does not block
_sendToMonitor(cx, data) ==
    IF cx.proc = Null \/ cx.stdin = Null
    THEN cx
    ELSE IF Exited(cx.stdin)
         THEN [cx EXCEPT !.proc = Null, !.stdin = Null, !.failed = TRUE]
         ELSE [cx EXCEPT !.written[cx.stdin] = Append(@, data), !.wrote = @ + 1]

\* consecutive _sendToMonitor calls of one handler, up to the write that blocks
RECURSIVE SendAll(_, _)
SendAll(recs, cx) ==
    IF recs = <<>>
    THEN cx
    ELSE IF WouldBlock(cx)
         THEN [cx EXCEPT !.rest = recs]
         ELSE SendAll(Tail(recs), _sendToMonitor(cx, Head(recs)))

\* ------------------------------------------------------------------ timer
\* the id GLib.timeout_add returns: one that no pending source has
FreshTimer(ts) ==
    CHOOSE i \in TimerIds : i \notin ts /\ \A j \in TimerIds : j \notin ts => i <= j

\* _updateLoop after update(): GLib.timeout_add
Reschedule(ts) ==
    /\ timers' = ts \cup {FreshTimer(ts)}
    /\ _updateLoopId' = FreshTimer(ts)
    /\ interval' = Interval(props'.refresh_interval)

\* ----------------------------------------------------------- _openMonitor
\* a bug: the replay loop running from the newest point to the oldest
BackfillPoints_NewestFirst ==
    [i \in 1..Len(history) |-> history[Len(history) + 1 - i]]

\* the points the replay loop iterates over: for (let point of this.history)
BackfillPoints == history

\* the next process Gio.Subprocess.new creates
NextProc == CHOOSE p \in Procs : procState[p] = "unspawned" /\ \A q \in Procs : procState[q] = "unspawned" => p <= q

\* the end of _openMonitor for process p, once the replay has got as far as cx:
\* suspended in a write, or wait_check_async on this._monitorProc, which throws
\* a TypeError into the catch block when a failed write has nulled it
OpenFinish(cx, p, ev) ==
    /\ _monitorProc' = cx.proc
    /\ _monitorStdin' = cx.stdin
    /\ written' = cx.written
    /\ unread' = [unread EXCEPT ![p] = @ + cx.wrote]
    /\ replayed' = [replayed EXCEPT ![p] = @ + cx.wrote]
    /\ blockedRest' = cx.rest
    /\ IF cx.rest # <<>>
       THEN /\ blockedOp' = "open"
            /\ watcher' = watcher
            /\ last' = ev
       ELSE /\ blockedOp' = "none"
            /\ IF cx.proc = Null
               THEN /\ watcher' = watcher
                    /\ last' = [ev EXCEPT !.failed = cx.failed, !.err = TRUE, !.log = TRUE]
               ELSE /\ watcher' = [watcher EXCEPT ![cx.proc] = "registered"]
                    /\ last' = ev

\* a bug: _openMonitor without its first test
ConnectionHeld_Never == FALSE

\* _openMonitor's first test: if (this._monitorProc) return
ConnectionHeld == _monitorProc # Null

\* a bug: a catch block that swallows the exception
SpawnFailed_Silent ==
    /\ last' = Quiet("open")
    /\ UNCHANGED << _monitorProc, _monitorStdin, procState, watcher, written, unread,
                    snapshot, replayed, sampledAt, blockedOp, blockedRest >>

\* Gio.Subprocess.new (or a call before it) throws: the catch block logs the
\* exception and notifies; neither handle has been assigned
SpawnFailed ==
    /\ last' = [Quiet("open") EXCEPT !.err = TRUE, !.log = TRUE]
    /\ UNCHANGED << _monitorProc, _monitorStdin, procState, watcher, written, unread,
                    snapshot, replayed, sampledAt, blockedOp, blockedRest >>

\* _openMonitor(): the menu item's activate handler
OpenMonitor ==
    /\ UNCHANGED << monitorVars, props >>
    /\ blockedOp = "none"
    /\ ~removed
    /\ IF ConnectionHeld
       THEN /\ last' = Quiet("open")
            /\ UNCHANGED << _monitorProc, _monitorStdin, procState, watcher, written,
                            unread, snapshot, replayed, sampledAt, blockedOp, blockedRest >>
       ELSE \/ SpawnFailed
            \/ /\ \E q \in Procs : procState[q] = "unspawned"
               /\ LET p == NextProc
                      cx == SendAll(BackfillPoints, Ctx(p, p))
                  IN /\ procState' = [procState EXCEPT ![p] = "running"]
                     /\ snapshot' = [snapshot EXCEPT ![p] = history]
                     /\ sampledAt' = [sampledAt EXCEPT ![p] = Len(sampled)]
                     /\ OpenFinish(cx, p, Quiet("open"))
    /\ UNCHANGED << history, appended, sampled, label, visible, settings, removed, last_output,
                    _updateLoopId, timers, interval >>

\* ------------------------------------------------------ parse_and_display
\* the end of parse_and_display in handler op, once its publish has got as far
\* as cx: suspended in the write, or on to the labels
ParseFinish(cx, op, ev) ==
    /\ _monitorProc' = cx.proc
    /\ _monitorStdin' = cx.stdin
    /\ written' = cx.written
    /\ unread' = IF cx.wrote > 0 THEN [unread EXCEPT ![_monitorStdin] = @ + cx.wrote] ELSE unread
    /\ blockedRest' = cx.rest
    /\ IF cx.rest # <<>>
       THEN /\ blockedOp' = op
            /\ label' = label
            /\ visible' = visible
            /\ last' = ev
       ELSE /\ blockedOp' = "none"
            /\ label' = LabelText(props', label)
            /\ visible' = Display(props')
            /\ last' = [ev EXCEPT !.failed = cx.failed, !.log = cx.failed]

\* parse_and_display(output) from its length test to its publish, in handler op
ParseAndDisplay(line, op) ==
    /\ Len(appended) < MaxSamples
    /\ history' = Append(history, HistoryPoint(line))
    /\ appended' = Append(appended, HistoryPoint(line))
    /\ ParseFinish(SendAll(<<HistoryPoint(line)>>, Ctx(_monitorProc, _monitorStdin)),
                   op, Quiet(op))

\* ------------------------------------------------------------ _updateLoop
\* the end of _updateLoop once parse_and_display's publish has got as far as cx
TickFinish(cx, ts, ev) ==
    /\ ParseFinish(cx, "tick", ev)
    /\ IF cx.rest # <<>>
       THEN /\ timers' = ts
            /\ _updateLoopId' = _updateLoopId
            /\ interval' = interval
       ELSE Reschedule(ts)

\* a bug: a failed update() that ends the loop
UpdateFailed_NoReschedule(outcome, ts) ==
    /\ label' = IF outcome = "fail" THEN "Error" ELSE "Err"
    /\ visible' = [visible EXCEPT !._label = TRUE]
    /\ last' = [Quiet("tick") EXCEPT !.err = TRUE, !.log = TRUE]
    /\ timers' = ts
    /\ _updateLoopId' = _updateLoopId
    /\ interval' = interval
    /\ UNCHANGED << history, appended, sampled, last_output, _monitorProc,
                    _monitorStdin, written, unread, blockedOp, blockedRest >>

\* a bug: a failed update() that forgets the output it had cached
UpdateFailed_ClearsCache(outcome, ts) ==
    /\ label' = IF outcome = "fail" THEN "Error" ELSE "Err"
    /\ visible' = [visible EXCEPT !._label = TRUE]
    /\ last' = [Quiet("tick") EXCEPT !.err = TRUE, !.log = TRUE]
    /\ Reschedule(ts)
    /\ last_output' = <<>>
    /\ UNCHANGED << history, appended, sampled, _monitorProc,
                    _monitorStdin, written, unread, blockedOp, blockedRest >>

\* update() when nvidia-smi fails ("Error") or an exception is caught ("Err"),
\* and the rest of _updateLoop
UpdateFailed(outcome, ts) ==
    /\ label' = IF outcome = "fail" THEN "Error" ELSE "Err"
    /\ visible' = [visible EXCEPT !._label = TRUE]
    /\ last' = [Quiet("tick") EXCEPT !.err = TRUE, !.log = TRUE]
    /\ Reschedule(ts)
    /\ UNCHANGED << history, appended, sampled, last_output, _monitorProc,
                    _monitorStdin, written, unread, blockedOp, blockedRest >>

\* update(): spawn_command_line_sync, decode, parse_and_display
Update(outcome, line, ts) ==
    IF outcome # "ok"
    THEN UpdateFailed(outcome, ts)
    ELSE /\ last_output' = line
         /\ IF ~Parses(line)
            THEN /\ last' = Quiet("tick")
                 /\ Reschedule(ts)
                 /\ UNCHANGED << history, appended, sampled, label, visible, _monitorProc,
                                 _monitorStdin, written, unread, blockedOp, blockedRest >>
            ELSE /\ Len(appended) < MaxSamples
                 /\ history' = Append(history, HistoryPoint(line))
                 /\ appended' = Append(appended, HistoryPoint(line))
                 /\ sampled' = Append(sampled, HistoryPoint(line))
                 /\ TickFinish(SendAll(<<HistoryPoint(line)>>, Ctx(_monitorProc, _monitorStdin)),
                               ts, Quiet("tick"))

\* _updateLoop() with the old timeout source gone: ts are the sources left
UpdateLoop(LS, ts) ==
    /\ \E outcome \in SourceOutcomes :
           IF outcome = "ok"
           THEN \E line \in LS : Update(outcome, line, ts)
           ELSE Update(outcome, <<>>, ts)
    /\ UNCHANGED << sampledAt, settings, removed, procState, watcher, snapshot, replayed >>

\* the timeout callback, nvidia-smi printing one of the lines LS
TickFrom(LS) ==
    /\ UNCHANGED << monitorVars, props >>
    /\ blockedOp = "none"
    /\ \E t \in timers : UpdateLoop(LS, timers \ {t})

\* the timeout callback: _updateLoop(), return false
Tick == TickFrom(Lines)

\* a bug: on_settings_changed leaving the old timeout source pending
SourceRemoved_Kept == timers

\* the sources left by on_settings_changed's
\* if (this._updateLoopId) GLib.Source.remove(this._updateLoopId)
SourceRemoved == IF _updateLoopId # Null THEN timers \ {_updateLoopId} ELSE timers

\* on_settings_changed(), the callback of the refresh-interval and encoding
\* settings, one of which has taken a value of RS or ES: the old source is
\* removed, the decoder is made anew, which throws for an unknown encoding,
\* and _updateLoop() runs
OnSettingsChangedFrom(RS, ES) ==
    /\ UNCHANGED monitorVars
    /\ blockedOp = "none"
    /\ settings
    /\ ~removed
    /\ \E r \in RS, e \in ES :
           props' = [props EXCEPT !.refresh_interval = r, !.encoding = e]
    /\ IF TextDecoderThrows(props'.encoding)
       THEN /\ timers' = SourceRemoved
            /\ last' = [Quiet("settings") EXCEPT !.fault = TRUE]
            /\ UNCHANGED << history, appended, sampled, sampledAt, label, visible,
                            settings, removed, last_output, _monitorProc,
                            _monitorStdin, _updateLoopId, interval, procState,
                            watcher, written, unread, snapshot, replayed, blockedOp,
                            blockedRest >>
       ELSE UpdateLoop(Lines, SourceRemoved)

\* on_settings_changed() with the two settings at the values the model starts from
OnSettingsChanged ==
    OnSettingsChangedFrom({DefaultProps.refresh_interval}, {DefaultProps.encoding})

\* on_update_display(), the callback of the eight display settings, which
\* have taken the values of one of DS
OnUpdateDisplayFrom(DS) ==
    /\ UNCHANGED monitorVars
    /\ blockedOp = "none"
    /\ settings
    /\ ~removed
    /\ \E d \in DS :
           props' = [d EXCEPT !.refresh_interval = props.refresh_interval,
                              !.encoding = props.encoding]
    /\ IF last_output # <<>> /\ Parses(last_output)
       THEN ParseAndDisplay(last_output, "display")
       ELSE /\ last' = Quiet("display")
            /\ UNCHANGED << history, appended, label, visible, _monitorProc, _monitorStdin,
                            written, unread, blockedOp, blockedRest >>
    /\ UNCHANGED << sampled, sampledAt, settings, removed, last_output, _updateLoopId,
                    timers, interval, procState, watcher, snapshot, replayed >>

\* on_update_display() with the display settings at the values the model starts from
OnUpdateDisplay == OnUpdateDisplayFrom({DefaultProps})

\* the suspended write returns: the reader made room, or went away
Resume ==
    /\ UNCHANGED << monitorVars, props >>
    /\ blockedOp # "none"
    /\ Exited(_monitorStdin) \/ unread[_monitorStdin] < PipeCap
    /\ LET cx == SendAll(blockedRest, Ctx(_monitorProc, _monitorStdin))
       IN CASE blockedOp = "open" ->
                 /\ OpenFinish(cx, _monitorStdin, Quiet("open"))
                 /\ UNCHANGED << label, visible, _updateLoopId, timers, interval >>
            [] blockedOp = "tick" ->
                 /\ TickFinish(cx, timers, Quiet("tick"))
                 /\ UNCHANGED << watcher, replayed >>
            [] OTHER ->
                 /\ ParseFinish(cx, "display", Quiet("display"))
                 /\ UNCHANGED << watcher, replayed, _updateLoopId, timers, interval >>
    /\ UNCHANGED << history, appended, sampled, sampledAt, settings, removed,
                    last_output, procState, snapshot >>

\* ------------------------------------------------------------ exit watcher
\* a bug: the callback that only logs, and leaves the handles set
ExitWatch_KeepHandles(p) ==
    /\ UNCHANGED << monitorVars, props >>
    /\ blockedOp = "none"
    /\ watcher[p] = "registered"
    /\ Exited(p)
    /\ watcher' = [watcher EXCEPT ![p] = "fired"]
    /\ \E status \in ExitStatuses :
           last' = [Quiet("exitwatch") EXCEPT !.log = (status # 0)]
    /\ UNCHANGED << history, appended, sampled, sampledAt, label, visible, settings, removed,
                    last_output, _monitorProc, _monitorStdin,
                    _updateLoopId, timers, interval, procState, written, unread, snapshot,
                    replayed, blockedOp, blockedRest >>

\* the wait_check_async callback registered for process p
\* wait_check_finish throws for a non-zero status, and the catch logs it
ExitWatch(p) ==
    /\ UNCHANGED << monitorVars, props >>
    /\ blockedOp = "none"
    /\ watcher[p] = "registered"
    /\ Exited(p)
    /\ _monitorProc' = Null
    /\ _monitorStdin' = Null
    /\ watcher' = [watcher EXCEPT ![p] = "fired"]
    /\ \E status \in ExitStatuses :
           last' = [Quiet("exitwatch") EXCEPT !.log = (status # 0)]
    /\ UNCHANGED << history, appended, sampled, sampledAt, label, visible, settings, removed,
                    last_output, _updateLoopId, timers, interval, procState,
                    written, unread, snapshot, replayed, blockedOp, blockedRest >>

\* ----------------------------------------------- on_applet_removed_from_panel
\* the process state after force_exit() on process p: a signal to one that
\* still runs, nothing to one that has exited
ForceExit(p) == [procState EXCEPT ![p] = "exited"]

\* what is left of f, a per-process record, once process p is gone
Gone(f, p, empty) == [f EXCEPT ![p] = empty]

\* a bug: a removal that leaves the timeout source pending
LoopStopped_Kept == timers

\* the sources left by on_applet_removed_from_panel's
\* if (this._updateLoopId) GLib.Source.remove(this._updateLoopId)
LoopStopped == IF _updateLoopId # Null THEN timers \ {_updateLoopId} ELSE timers

\* on_applet_removed_from_panel(): the timeout source, the monitor process, the
\* menu, and this.settings.finalize(), which throws when the constructor
\* returned before _initSettings
OnAppletRemoved ==
    /\ UNCHANGED << monitorVars, props >>
    /\ blockedOp = "none"
    /\ ~removed
    /\ removed' = TRUE
    /\ timers' = LoopStopped
    /\ IF _monitorProc # Null
       THEN /\ procState' = ForceExit(_monitorProc)
            /\ unread' = Gone(unread, _monitorProc, 0)
            /\ written' = Gone(written, _monitorProc, <<>>)
            /\ snapshot' = Gone(snapshot, _monitorProc, <<>>)
            /\ replayed' = Gone(replayed, _monitorProc, 0)
            /\ sampledAt' = Gone(sampledAt, _monitorProc, 0)
            /\ _monitorProc' = Null
       ELSE UNCHANGED << procState, unread, written, snapshot, replayed, sampledAt,
                         _monitorProc >>
    /\ last' = [Quiet("removed") EXCEPT !.fault = ~settings]
    /\ UNCHANGED << history, appended, sampled, label, visible, settings, last_output,
                    _monitorStdin, _updateLoopId, interval, watcher, blockedOp,
                    blockedRest >>

\* --------------------------------------------------------------- consumer
ConsumerRead(p) ==
    /\ UNCHANGED << monitorVars, props >>
    /\ procState[p] = "running"
    /\ unread[p] > 0
    /\ unread' = [unread EXCEPT ![p] = @ - 1]
    /\ UNCHANGED << history, appended, sampled, sampledAt, label, visible, settings, removed,
                    last_output, _monitorProc, _monitorStdin,
                    _updateLoopId, timers, interval, procState, watcher, written, snapshot,
                    replayed, blockedOp, blockedRest, last >>

\* the consumer stops reading its input
ConsumerHang(p) ==
    /\ UNCHANGED << monitorVars, props >>
    /\ procState[p] = "running"
    /\ procState' = [procState EXCEPT ![p] = "hung"]
    /\ UNCHANGED << history, appended, sampled, sampledAt, label, visible, settings, removed,
                    last_output, _monitorProc, _monitorStdin,
                    _updateLoopId, timers, interval, watcher, written, unread, snapshot,
                    replayed, blockedOp, blockedRest, last >>

\* the consumer process terminates; its pipe, and what was in it, goes with it
ConsumerExit(p) ==
    /\ UNCHANGED << monitorVars, props >>
    /\ Alive(p)
    /\ procState' = [procState EXCEPT ![p] = "exited"]
    /\ unread' = [unread EXCEPT ![p] = 0]
    /\ written' = [written EXCEPT ![p] = <<>>]
    /\ snapshot' = [snapshot EXCEPT ![p] = <<>>]
    /\ replayed' = [replayed EXCEPT ![p] = 0]
    /\ sampledAt' = [sampledAt EXCEPT ![p] = 0]
    /\ UNCHANGED << history, appended, sampled, label, visible, settings, removed,
                    last_output, _monitorProc, _monitorStdin,
                    _updateLoopId, timers, interval, watcher, blockedOp, blockedRest, last >>

\* ----------------------------------------------------------- specification
\* the constructor, nvidia-smi found: on_settings_changed() has run
\* _updateLoop() once
Constructed ==
    /\ settings = TRUE
    /\ \E line \in Lines \cup {<<>>} :
           /\ last_output = line
           /\ history = IF Parses(line) THEN <<HistoryPoint(line)>> ELSE <<>>
           /\ label \in (IF line = <<>> THEN {"Error", "Err"}
                         ELSE IF Parses(line) THEN {"data"} ELSE {"init"})
           /\ visible = IF Parses(line) THEN Display(DefaultProps) ELSE Built
    /\ props = DefaultProps
    /\ _updateLoopId = 1
    /\ timers = {1}
    /\ interval = Interval(DefaultProps.refresh_interval)

\* the constructor, nvidia-smi not in PATH: the menu is built, and the
\* constructor returns before _initSettings and on_settings_changed
NotFound ==
    /\ settings = FALSE
    /\ last_output = <<>>
    /\ history = <<>>
    /\ label = "notfound"
    /\ visible = Built
    /\ props = DefaultProps
    /\ _updateLoopId = Null
    /\ timers = {}
    /\ interval = Null

\* ------------------------------------------------------------- monitor.py
\* records the model lets one stream carry
MaxRecords == 2
\* the samples the records of a stream stand for
MSamples == {1, 2}

\* the newline that ends a record, and the brace that ends its JSON text
NL == 10
RBrace == 125

\* JSON.stringify(data) + "\n", for the sample s
Encode(s) == <<s, RBrace, NL>>

RECURSIVE EncodeAll(_)
EncodeAll(ss) == IF ss = <<>> THEN <<>> ELSE Encode(Head(ss)) \o EncodeAll(Tail(ss))

\* the streams of at most MaxRecords records
Streams == UNION { [1..n -> MSamples] : n \in 0..MaxRecords }

HasLine(buf) == \E i \in 1..Len(buf) : buf[i] = NL
FirstNL(buf) == CHOOSE i \in 1..Len(buf) : buf[i] = NL /\ \A j \in 1..(i - 1) : buf[j] # NL

\* process_data(line): the JSON text is parsed and the sample appended; a
\* malformed record is discarded
ProcessData(text, h) ==
    IF Len(text) = 2 /\ text[2] = RBrace /\ text[1] \in MSamples
    THEN Append(h, text[1])
    ELSE h

\* source.read_line() on the blocking channel, given what the pipe holds: the
\* channel reads what is there; it returns the first line, or at end of file
\* what is left, or else keeps waiting for the newline
ReadLine ==
    LET buf == io_channel \o sys_stdin
    IN /\ sys_stdin' = <<>>
       /\ IF HasLine(buf)
          THEN /\ io_channel' = SubSeq(buf, FirstNL(buf) + 1, Len(buf))
               /\ mhistory' = ProcessData(SubSeq(buf, 1, FirstNL(buf) - 1), mhistory)
               /\ inRead' = FALSE
          ELSE IF hup
               THEN /\ io_channel' = <<>>
                    /\ mhistory' = ProcessData(buf, mhistory)
                    /\ inRead' = FALSE
               ELSE /\ io_channel' = buf
                    /\ mhistory' = mhistory
                    /\ inRead' = TRUE

\* a bug: on_stdin_data without its HUP test
OnStdinData_NoHupTest ==
    /\ mstate = "STREAMING"
    /\ watch
    /\ ~inRead
    /\ hup \/ sys_stdin # <<>> \/ io_channel # <<>>
    /\ ReadLine
    /\ UNCHANGED << mstate, watch, tosend, hup, call, coords, target, fed >>
    /\ UNCHANGED appletVars

\* on_stdin_data(source, condition): the watch fires on IN (bytes in the pipe
\* or in the channel) or HUP
OnStdinData ==
    /\ mstate = "STREAMING"
    /\ watch
    /\ ~inRead
    /\ hup \/ sys_stdin # <<>> \/ io_channel # <<>>
    /\ IF hup
       THEN \* Gtk.main_quit(); return False
            /\ mstate' = "TERMINATED"
            /\ watch' = FALSE
            /\ UNCHANGED << sys_stdin, io_channel, mhistory, inRead >>
       ELSE /\ ReadLine
            /\ UNCHANGED << mstate, watch >>
    /\ UNCHANGED << tosend, hup, call, coords, target, fed >>
    /\ UNCHANGED appletVars

\* read_line() goes on once the pipe has more bytes or is closed
ReadMore ==
    /\ inRead
    /\ hup \/ sys_stdin # <<>>
    /\ ReadLine
    /\ UNCHANGED << mstate, watch, tosend, hup, call, coords, target, fed >>
    /\ UNCHANGED appletVars

\* k more bytes of the applet's writes arrive in the pipe
Deliver(k) ==
    /\ ~hup
    /\ k \in 1..Len(tosend)
    /\ sys_stdin' = sys_stdin \o SubSeq(tosend, 1, k)
    /\ tosend' = SubSeq(tosend, k + 1, Len(tosend))
    /\ UNCHANGED << hup, io_channel, mstate, watch, inRead, mhistory, call, coords,
                    target, fed >>
    /\ UNCHANGED appletVars

\* the write end is closed: the applet let go of it, or died
CloseWrite ==
    /\ ~hup
    /\ mstate = "STREAMING"
    /\ hup' = TRUE
    /\ UNCHANGED << sys_stdin, tosend, io_channel, mstate, watch, inRead, mhistory,
                    call, coords, target, fed >>
    /\ UNCHANGED appletVars

\* -------------------------------------------------------- calculate_coords
\* samples the model lets monitor.py's history hold when it draws
MaxPoints == 3
\* the values of the samples drawn
Values == {0, 50, 100}
\* get_y's max_val=100.0
MaxValue == 100

Min(a, b) == IF a <= b THEN a ELSE b
Max(a, b) == IF a >= b THEN a ELSE b

\* points_to_draw: no more points than samples, no more than fit on screen
PointsToDraw(h, max_history) == Min(Len(h), max_history)

\* a bug: the index counted from the length, not from the last element
HistoryIndex_OffByOne(n, i) == n - i

\* the index of the i-th point's sample: len(self.history) - 1 - i
HistoryIndex(n, i) == n - 1 - i

\* self.history[idx] as Python reads it: a negative index counts from the end
\* (0 stands for the IndexError of an index outside the list)
PyIndex(h, idx) ==
    IF idx >= 0 /\ idx < Len(h) THEN h[idx + 1]
    ELSE IF idx < 0 /\ idx >= 0 - Len(h) THEN h[Len(h) + idx + 1]
         ELSE 0

\* a bug: the value axis not inverted
GetY_NotInverted(val, c) == c.margin_top * MaxValue + c.graph_h * val

\* get_y(val): margin_top + graph_h * (1 - val / max_val), in 1/max_val pixels
GetY(val, c) == c.margin_top * MaxValue + c.graph_h * (MaxValue - val)

\* calculate_coords(...) on the history h; x is in 1/(max_history - 1) pixels,
\* step_x being graph_w / (max_history - 1)
calculate_coords(h, c) ==
    [ k \in 1..PointsToDraw(h, c.max_history) |->
        LET i == k - 1
            idx == HistoryIndex(Len(h), i)
        IN [ idx |-> idx,
             x   |-> (c.width - c.margin_right) * (c.max_history - 1) - i * c.graph_w,
             gpu |-> GetY(PyIndex(h, idx), c) ] ]

\* the draw handler calls calculate_coords with the sizes of the drawing area
CalculateCoords ==
    /\ \E width \in {100, 120}, graph_w \in {90}, graph_h \in {60, 80},
          margin_top \in {5, 20}, margin_right \in {10}, max_history \in {2, 4} :
           LET c == [ fn |-> "calculate_coords", width |-> width, graph_w |-> graph_w,
                      graph_h |-> graph_h, margin_top |-> margin_top,
                      margin_right |-> margin_right, max_history |-> max_history ]
           IN /\ call' = c
              /\ coords' = calculate_coords(mhistory, c)
    /\ UNCHANGED << sys_stdin, tosend, hup, io_channel, mstate, watch, inRead,
                    mhistory, target, fed >>
    /\ UNCHANGED appletVars

\* --------------------------------------------------- setup_window_position
\* a bug: the clamp without its lower bound
Clamp_UpperOnly(t2, hi) == Min(t2, 2 * hi) \div 2

\* int(max(0, min(target, hi))), for the target given in half pixels
Clamp(t2, hi) == Max(0, Min(t2, 2 * hi)) \div 2

\* setup_window_position for the call c; pre are target_x and target_y as the
\* code before the two branches left them, in half pixels
WindowPosition(c, pre) ==
    LET target_x == IF c.orientation = 0
                    THEN 2 * c.x_applet + c.w_applet - c.win_w
                    ELSE pre.x
        target_y == IF c.orientation = 0 THEN 2 * (c.y_applet + c.h_applet + 5)
                    ELSE IF c.orientation = 1 THEN 2 * (c.y_applet - c.win_h - 5)
                    ELSE pre.y
    IN [ x |-> Clamp(target_x, c.screen_w - c.win_w),
         y |-> Clamp(target_y, c.screen_h - c.win_h) ]

\* monitor.py places its window, once, from its --x --y --width --height and
\* --orientation arguments
SetupWindowPosition ==
    /\ call.fn = "none"
    /\ \E orientation \in {0, 1, 2}, x_applet \in {0, 50, 95}, y_applet \in {0, 90},
          win \in { <<30, 20>>, <<120, 20>>, <<30, 130>> },
          px \in {-20, 71, 300}, py \in {-20, 300} :
           LET c == [ fn |-> "setup_window_position", orientation |-> orientation,
                      x_applet |-> x_applet, y_applet |-> y_applet,
                      w_applet |-> 5, h_applet |-> 10,
                      win_w |-> win[1], win_h |-> win[2],
                      screen_w |-> 100, screen_h |-> 100 ]
           IN /\ call' = c
              /\ target' = WindowPosition(c, [x |-> px, y |-> py])
    /\ UNCHANGED << sys_stdin, tosend, hup, io_channel, mstate, watch, inRead,
                    mhistory, coords, fed >>
    /\ UNCHANGED appletVars

\* monitor.py not started: no stream, no call
NoStream ==
    /\ sys_stdin = <<>>
    /\ tosend = <<>>
    /\ hup = FALSE
    /\ io_channel = <<>>
    /\ mstate = "INITIALIZING"
    /\ watch = FALSE
    /\ inRead = FALSE
    /\ call = [fn |-> "none"]
    /\ coords = <<>>
    /\ target = <<>>
    /\ fed = <<>>

\* monitor.py as long as the model looks at the applet alone
MonitorIdle ==
    /\ NoStream
    /\ mhistory = <<>>

\* the rest of the constructor: no monitor has been opened
NoMonitor ==
    /\ appended = history
    /\ sampled = history
    /\ sampledAt = [p \in Procs |-> 0]
    /\ removed = FALSE
    /\ _monitorProc = Null
    /\ _monitorStdin = Null
    /\ procState = [p \in Procs |-> "unspawned"]
    /\ watcher = [p \in Procs |-> "none"]
    /\ written = [p \in Procs |-> <<>>]
    /\ unread = [p \in Procs |-> 0]
    /\ snapshot = [p \in Procs |-> <<>>]
    /\ replayed = [p \in Procs |-> 0]
    /\ blockedOp = "none"
    /\ blockedRest = <<>>
    /\ last = Quiet("init")

\* the applet as long as the model looks at monitor.py alone
AppletIdle == NotFound /\ NoMonitor

Init ==
    /\ MonitorIdle
    /\ Constructed \/ NotFound
    /\ NoMonitor

Next ==
    \/ OpenMonitor
    \/ Tick
    \/ OnSettingsChanged
    \/ OnUpdateDisplay
    \/ Resume
    \/ OnAppletRemoved
    \/ \E p \in Procs : ExitWatch(p)
    \/ \E p \in Procs : ConsumerRead(p)
    \/ \E p \in Procs : ConsumerHang(p)
    \/ \E p \in Procs : ConsumerExit(p)

Spec == Init /\ [][Next]_vars

\* The GLib main loop dispatches a ready callback, a write that can proceed
\* returns, and a consumer that is running reads its input.
FairSpec ==
    /\ Spec
    /\ WF_vars(Resume)
    /\ \A p \in Procs : WF_vars(ExitWatch(p))
    /\ \A p \in Procs : WF_vars(ConsumerRead(p))

\* the sampling pipeline alone, on lines whose fields are out of range: the
\* timer, one monitor, and a consumer that reads
WideTick == TickFrom(WideLines)

WideNext ==
    \/ WideTick
    \/ OpenMonitor
    \/ Resume
    \/ \E p \in Procs : ConsumerRead(p)

WideSpec == Init /\ [][WideNext]_vars

\* monitor.py alone, watching its input: the stream is any sequence of records
MonitorInit ==
    /\ AppletIdle
    /\ \E ss \in Streams :
           /\ fed = ss
           /\ tosend = EncodeAll(ss)
    /\ sys_stdin = <<>>
    /\ hup = FALSE
    /\ io_channel = <<>>
    /\ mstate = "STREAMING"
    /\ watch = TRUE
    /\ inRead = FALSE
    /\ mhistory = <<>>
    /\ call = [fn |-> "none"]
    /\ coords = <<>>
    /\ target = <<>>

MonitorNext ==
    \/ OnStdinData
    \/ ReadMore
    \/ \E k \in 1..(3 * MaxRecords) : Deliver(k)
    \/ CloseWrite

MonitorSpec == MonitorInit /\ [][MonitorNext]_vars

\* The GLib main loop of monitor.py dispatches a watch that is ready, and a
\* read that can go on returns.
FairMonitorSpec ==
    /\ MonitorSpec
    /\ WF_vars(OnStdinData)
    /\ WF_vars(ReadMore)

\* monitor.py drawing: any history, and the draw handler
CoordInit ==
    /\ AppletIdle
    /\ NoStream
    /\ mhistory \in UNION { [1..n -> Values] : n \in 0..MaxPoints }

CoordSpec == CoordInit /\ [][CalculateCoords]_vars

\* monitor.py starting up: the window is placed
PlaceInit == AppletIdle /\ MonitorIdle

PlaceSpec == PlaceInit /\ [][SetupWindowPosition]_vars

\* the sampling timer alone: it fires, and the user changes the refresh
\* interval and the encoding to any value
TimerSettingsChanged == OnSettingsChangedFrom(RefreshIntervals, Encodings)

SettingsNext ==
    \/ Tick
    \/ TimerSettingsChanged

SettingsSpec == Init /\ [][SettingsNext]_vars

\* the panel display alone: the user changes the eight display settings to
\* any value, and the output of the constructor's sample is displayed anew
DisplaySettingsChanged == OnUpdateDisplayFrom(DisplayProps)

DisplaySpec == Init /\ [][DisplaySettingsChanged]_vars

\* ------------------------------------------------------------------ claims

\* C1: at no time are two consumer processes that the producer spawned
\* running at once.
C1_OneConsumerRunning == Cardinality({p \in Procs : Alive(p)}) <= 1

\* C2: _openMonitor with a process handle held spawns nothing, writes nothing,
\* registers no exit watcher and leaves the process handle, the write-end
\* handle and the history as they were.
C2_OpenIdempotent ==
    [][ (_monitorProc # Null /\ last'.op = "open" /\ OpenMonitor) =>
            UNCHANGED << _monitorProc, _monitorStdin, history, procState, watcher,
                         written, unread, snapshot, replayed, timers >> ]_vars

\* an open request has been handled while a consumer that already received a
\* live sample after its replay was held
C2_Witness ==
    /\ last = Quiet("open")
    /\ _monitorProc # Null
    /\ watcher[_monitorProc] = "registered"
    /\ Len(written[_monitorProc]) > Len(snapshot[_monitorProc])

\* C3: the producer's event loop is never suspended inside a handler (a
\* sampling tick or the replay of _openMonitor) on a consumer that has stopped
\* reading, so every tick completes and schedules the next one.
C3_SamplingNotGated ==
    ~ ( /\ blockedOp # "none"
        /\ _monitorStdin # Null
        /\ procState[_monitorStdin] = "hung" )

\* C4: a sampling tick whose publish fails clears both handles in that step,
\* raises nothing to the user, keeps the sample it was publishing at the end
\* of the history, and completes with the next tick scheduled.
C4_PublishFailureTearsDown ==
    [][ (last'.failed /\ last'.op = "tick" /\ (Tick \/ Resume)) =>
            /\ _monitorProc' = Null
            /\ _monitorStdin' = Null
            /\ ~last'.err
            /\ blockedOp' = "none"
            /\ _updateLoopId' \in timers'
            /\ history' # <<>>
            /\ \/ blockedOp = "none" /\ history' = Append(history, history'[Len(history')])
               \/ blockedOp = "tick" /\ history' = history
                                     /\ blockedRest = <<history'[Len(history')]>> ]_vars

\* a tick's publish has failed
C4_Witness ==
    /\ last.op = "tick"
    /\ last.failed
    /\ _monitorProc = Null
    /\ _monitorStdin = Null
    /\ Len(history) >= 2

\* C5: no handler in which a write to the consumer failed raises a user-facing
\* notification.
C5_WriteFailureSilent == last.failed => ~last.err

\* C6: once the process of the held connection has terminated, the producer
\* comes to a state with both handles released; the exit-watch callback raises
\* nothing to the user, whatever the exit status, and leaves the sampling
\* timer and the history alone.
C6_ExitWatcher ==
    /\ (_monitorProc # Null /\ Exited(_monitorProc))
           ~> (_monitorProc = Null /\ _monitorStdin = Null)
    /\ [][ (last'.op = "exitwatch" /\ \E p \in Procs : ExitWatch(p)) =>
               /\ _monitorProc' = Null
               /\ _monitorStdin' = Null
               /\ ~last'.err
               /\ ~last'.failed
               /\ UNCHANGED << timers, _updateLoopId, history >> ]_vars

\* the exit watcher has fired for a process that ended with a non-zero status,
\* and no write had failed
C6_Witness ==
    /\ last = [Quiet("exitwatch") EXCEPT !.log = TRUE]
    /\ \E p \in Procs : watcher[p] = "fired"
    /\ _monitorProc = Null
    /\ _monitorStdin = Null
    /\ timers # {}

\* C7: the history never holds more than max_history_points samples.
C7_HistoryBounded == Len(history) <= max_history_points

\* C8: once max_history_points or more samples have been appended, the
\* history is the last max_history_points of them, in order.
C8_FifoEviction ==
    Len(appended) >= max_history_points =>
        history = SubSeq(appended, Len(appended) - max_history_points + 1, Len(appended))

\* C9: what is written to a running consumer starts with the history snapshot
\* taken at its spawn, one record per sample, oldest first; after an open that
\* succeeded the whole snapshot is there, ahead of every later sample.
C9_BackfillOrdered ==
    \A p \in Procs :
        Alive(p) =>
            /\ \A i \in 1..Min(Len(written[p]), Len(snapshot[p])) :
                   written[p][i] = snapshot[p][i]
            /\ watcher[p] # "none" => Len(written[p]) >= Len(snapshot[p])

\* an open has succeeded with two different samples in the snapshot, and a
\* later tick has published
C9_Witness ==
    \E p \in Procs :
        /\ Alive(p)
        /\ watcher[p] = "registered"
        /\ Len(snapshot[p]) >= 2
        /\ snapshot[p][1] # snapshot[p][2]
        /\ Len(written[p]) > Len(snapshot[p])

\* C10: an open that succeeded has replayed min(BacklogLimit, history length)
\* records.
C10_BackfillBounded ==
    \A p \in Procs :
        (Alive(p) /\ watcher[p] # "none") =>
            replayed[p] = Min(BacklogLimit, Len(snapshot[p]))

\* C11: while the connection opened for a running consumer is held and no
\* handler is suspended, what has been written to its pipe is the snapshot
\* replayed at its spawn followed by the sample of each sampling tick since,
\* every sample once and in order.
C11_BackfillComplete ==
    \A p \in Procs :
        ( /\ blockedOp = "none"
          /\ _monitorProc = p
          /\ _monitorStdin = p
          /\ Alive(p)
          /\ watcher[p] = "registered" ) =>
            written[p] = snapshot[p] \o SubSeq(sampled, sampledAt[p] + 1, Len(sampled))

\* C12: on_update_display appends nothing to the history and writes nothing
\* to any pipe.
C12_RerenderPure ==
    [][ (last'.op = "display" /\ OnUpdateDisplay) =>
            /\ history' = history
            /\ written' = written ]_vars

\* C13: a sampling step that parses a sample while no connection is held
\* writes to no pipe, leaves the handles as they were, raises and logs
\* nothing, and still appends the sample to the history and schedules the
\* next tick.
C13_PublishWithoutConnection ==
    [][ ( /\ (_monitorProc = Null \/ _monitorStdin = Null)
          /\ last'.op = "tick"
          /\ sampled' # sampled
          /\ (Tick \/ OnSettingsChanged) ) =>
            /\ written' = written
            /\ unread' = unread
            /\ _monitorProc' = _monitorProc
            /\ _monitorStdin' = _monitorStdin
            /\ last' = Quiet("tick")
            /\ blockedOp' = "none"
            /\ _updateLoopId' \in timers'
            /\ history' = Append(history, sampled'[Len(sampled')]) ]_vars

\* a tick has appended a sample with no connection held, after the exit
\* watcher of an earlier consumer had released the handles
C13_Witness ==
    /\ last = Quiet("tick")
    /\ _monitorProc = Null
    /\ _monitorStdin = Null
    /\ Len(sampled) >= 2
    /\ \E p \in Procs : watcher[p] = "fired"
    /\ \A p \in Procs : written[p] = <<>>

\* C14: once on_applet_removed_from_panel has run, no consumer the producer
\* spawned is left running and both handles are released.
C14_CloseReleases ==
    removed =>
        /\ \A p \in Procs : ~Alive(p)
        /\ _monitorProc = Null
        /\ _monitorStdin = Null

\* C15: no teardown step (removal, a failed write, the exit watcher) ends in an
\* uncaught exception, and none leaves the process handle set for a process
\* that has exited.
C15_TeardownSafe ==
    /\ ~last.fault
    /\ (last.op \in {"removed", "exitwatch"} \/ last.failed) =>
           ~(_monitorProc # Null /\ Exited(_monitorProc))

\* C16: a sampling step whose update() fails sets the label to "Error" or
\* "Err", leaves the pipeline alone, and ends with the next tick scheduled.
C16_SourceFailureKeepsSampling ==
    [][ (last'.err /\ last'.op = "tick" /\ (Tick \/ OnSettingsChanged)) =>
            /\ label' \in {"Error", "Err"}
            /\ blockedOp' = "none"
            /\ _updateLoopId' \in timers'
            /\ UNCHANGED << history, last_output, _monitorProc, _monitorStdin,
                            written >> ]_vars

\* update() has caught an exception on a tick after samples were taken, and
\* the next tick is pending
C16_Witness ==
    /\ last.op = "tick"
    /\ last.err
    /\ label = "Err"
    /\ _updateLoopId \in timers
    /\ Len(sampled) >= 2

\* C17: an open request that finds no process handle and spawns no process
\* raises one notification, assigns neither handle, registers no watcher and
\* writes nothing; the process handle stays null, so the next request tries
\* again.
C17_SpawnFailureReported ==
    [][ ( /\ _monitorProc = Null
          /\ last'.op = "open"
          /\ procState' = procState
          /\ OpenMonitor ) =>
            /\ last'.err
            /\ ~last'.failed
            /\ _monitorProc' = Null
            /\ _monitorStdin' = Null
            /\ ~ConnectionHeld'
            /\ watcher' = watcher
            /\ written' = written ]_vars

\* a spawn has failed with samples in the history
C17_Witness ==
    /\ last = [Quiet("open") EXCEPT !.err = TRUE, !.log = TRUE]
    /\ _monitorProc = Null
    /\ _monitorStdin = Null
    /\ history # <<>>
    /\ \A p \in Procs : ~Alive(p)

\* C18: every record written to a pipe has the fields ts, gpu, mem, temp, fan.
C18_RecordFields ==
    \A p \in Procs :
        \A i \in 1..Len(written[p]) :
            DOMAIN written[p][i] = {"ts", "gpu", "mem", "temp", "fan"}

\* C19: the gpu, mem and fan values of every sample in the history and of
\* every record written to a pipe lie in 0..100.
InRange(point) ==
    /\ point.gpu \in 0..100
    /\ point.mem \in 0..100
    /\ point.fan \in 0..100

C19_PercentagesClamped ==
    /\ \A i \in 1..Len(history) : InRange(history[i])
    /\ \A p \in Procs : \A i \in 1..Len(written[p]) : InRange(written[p][i])

\* C20: a sampling step that reads a line of exactly five fields appends the
\* sample decoded from it to the history.
C20_FiveFieldLineDecoded ==
    [][ ( /\ last'.op = "tick"
          /\ ~last'.err
          /\ Len(last_output') = 5
          /\ (Tick \/ OnSettingsChanged) ) =>
            history' = Append(history, HistoryPoint(last_output')) ]_vars

\* C27: a sampling step whose update() fails changes neither the history nor
\* the cached output, and puts no record in any pipe.
C27_SourceFailureFrame ==
    [][ (last'.err /\ last'.op = "tick" /\ (Tick \/ OnSettingsChanged)) =>
            /\ history' = history
            /\ appended' = appended
            /\ last_output' = last_output
            /\ written' = written
            /\ unread' = unread ]_vars

\* nvidia-smi has failed on a tick while a consumer that had received records
\* was held and an output was cached
C27_Witness ==
    /\ last.op = "tick"
    /\ last.err
    /\ label = "Error"
    /\ last_output # <<>>
    /\ history # <<>>
    /\ _monitorProc # Null
    /\ _monitorStdin = _monitorProc
    /\ Alive(_monitorProc)
    /\ written[_monitorProc] # <<>>

\* C28: the exit-watch callback of a process that is not the one the handles
\* refer to leaves both handles as they are.
C28_ExitWatchOwnConnection ==
    [][ \A p \in Procs :
            ( /\ last'.op = "exitwatch"
              /\ _monitorProc # Null
              /\ _monitorProc # p
              /\ ExitWatch(p) ) =>
                /\ _monitorProc' = _monitorProc
                /\ _monitorStdin' = _monitorStdin ]_vars

\* C29: every process that has been spawned has its exit watcher registered
\* once the _openMonitor that spawned it has returned.
C29_WatcherRegistered ==
    \A p \in Procs :
        (procState[p] # "unspawned" /\ ~(blockedOp = "open" /\ _monitorStdin = p)) =>
            watcher[p] # "none"

\* C30: whenever no handler is running, the process handle is set exactly
\* when the write-end handle is set.
C30_HandlesConsistent ==
    blockedOp = "none" => ((_monitorProc = Null) <=> (_monitorStdin = Null))

IsPrefix(a, b) == Len(a) <= Len(b) /\ a = SubSeq(b, 1, Len(a))

\* C21: once the pipe is closed while monitor.py streams, monitor.py comes to
\* TERMINATED; in TERMINATED the watch is gone, no read is under way, and no
\* step changes the state, the pipe, the channel buffer or the history.
C21_EndOfStream ==
    /\ (mstate = "STREAMING" /\ hup) ~> (mstate = "TERMINATED")
    /\ [][ mstate = "TERMINATED" =>
               /\ ~watch
               /\ ~inRead
               /\ mstate' = "TERMINATED"
               /\ ~watch'
               /\ ~inRead'
               /\ UNCHANGED << sys_stdin, io_channel, mhistory >> ]_vars

\* monitor.py has terminated after decoding a record, with bytes left in the
\* pipe that it never read
C21_Witness ==
    /\ mstate = "TERMINATED"
    /\ hup
    /\ ~watch
    /\ mhistory # <<>>
    /\ sys_stdin # <<>>

\* C22: when on_stdin_data has returned to the main loop, no complete record
\* is left undecoded in the channel's buffer.
C22_AllRecordsPerNotification ==
    (mstate = "STREAMING" /\ ~inRead) => ~HasLine(io_channel)

\* C23: whatever the chunks, the decoded samples are the samples fed, in order
\* (all of them once every byte has been read), and monitor.py is never
\* inside a read that waits for the rest of a record.
C23_ChunkIndependent ==
    /\ ~inRead
    /\ IsPrefix(mhistory, fed)
    /\ (~hup /\ tosend = <<>> /\ sys_stdin = <<>> /\ io_channel = <<>>) => mhistory = fed

\* C24: the newest sample is plotted at x = width - margin_right, the i-th
\* older one i * step_x to the left of it; a value of 0 is plotted at
\* y = margin_top + graph_h and a value of MaxValue at y = margin_top.
C24_CoordEndpoints ==
    call.fn = "calculate_coords" =>
        \A k \in 1..Len(coords) :
            LET val == mhistory[Len(mhistory) + 1 - k]
            IN /\ coords[k].x =
                      (call.width - call.margin_right) * (call.max_history - 1)
                          - (k - 1) * call.graph_w
               /\ val = 0 => coords[k].gpu = (call.margin_top + call.graph_h) * MaxValue
               /\ val = MaxValue => coords[k].gpu = call.margin_top * MaxValue

\* two points have been computed, for a newest sample of MaxValue and an
\* older sample of 0
C24_Witness ==
    /\ call.fn = "calculate_coords"
    /\ Len(coords) >= 2
    /\ mhistory[Len(mhistory)] = MaxValue
    /\ mhistory[Len(mhistory) - 1] = 0

C26_PlacementOnScreen ==
    call.fn = "setup_window_position" =>
        /\ 0 <= target.x
        /\ target.x + call.win_w <= call.screen_w
        /\ 0 <= target.y
        /\ target.y + call.win_h <= call.screen_h

\* C26, amended: the position is never negative, and on each axis on which the
\* window is no larger than the screen the window ends inside the screen.
C26_PlacementClamped ==
    call.fn = "setup_window_position" =>
        /\ 0 <= target.x
        /\ 0 <= target.y
        /\ call.win_w <= call.screen_w => target.x + call.win_w <= call.screen_w
        /\ call.win_h <= call.screen_h => target.y + call.win_h <= call.screen_h

\* a window that fits the screen, below a top panel, its applet at the right
\* edge: the centred candidate is clamped
C26_Witness ==
    /\ call.fn = "setup_window_position"
    /\ call.orientation = 0
    /\ call.x_applet = 95
    /\ call.win_w = 30
    /\ target.x = 70

\* C31: at most one sampling timer is pending, after any sequence of timer
\* firings and changes of the refresh interval and the encoding.
C31_OneTimerPending == Cardinality(timers) <= 1

\* the timer has fired, and been rescheduled, under a refresh interval that
\* the user had changed, with two samples taken since the constructor
C31_Witness ==
    /\ props.refresh_interval = 2
    /\ last.op = "tick"
    /\ timers = {_updateLoopId}
    /\ interval = 2000
    /\ Len(appended) >= 3

\* C32: every call of on_settings_changed, whatever the values of the
\* refresh interval and the encoding, ends with a sampling timer pending.
C32_TimerPendingAgain == [][ TimerSettingsChanged => timers' # {} ]_vars

\* C33: once on_applet_removed_from_panel has returned no sampling timer is
\* pending, and from then on nothing is sampled, nothing is pushed to the
\* history, nothing is shown and no record is written to a consumer.
C33_NoTickAfterRemoval ==
    /\ [](removed => timers = {})
    /\ [][ removed =>
             /\ UNCHANGED << history, appended, sampled, last_output, label, visible >>
             /\ \A p \in Procs : Len(written'[p]) <= Len(written[p]) ]_vars

\* the applet was removed while its timer was pending, with samples taken and
\* a consumer it had spawned; the exit watcher has run since
C33_Witness ==
    /\ removed
    /\ _updateLoopId # Null
    /\ Len(history) >= 2
    /\ last.op = "exitwatch"
    /\ \E p \in Procs : Exited(p)

\* C34: on_applet_removed_from_panel completes with no exception leaving it,
\* also when nvidia-smi was not found and no settings object exists.
C34_RemovalCompletes == last.op = "removed" => ~last.fault

\* C35: the delay of a pending sampling timer is at least 500 ms, whatever the
\* refresh interval, zero and negative values included.
C35_IntervalFloor == timers # {} => interval >= 500

\* the timer has been rescheduled under a negative refresh interval
C35_Witness ==
    /\ props.refresh_interval < 0
    /\ timers # {}
    /\ interval = 500
    /\ last.op = "tick"

\* C36: the label and the pie of the memory, GPU and fan sections are never
\* both visible, and a parse_and_display that got to the display leaves the
\* pie alone visible for a section shown in pie mode, the label alone for a
\* section shown in another mode, and neither for a section not shown.
C36_LabelOrPie ==
    /\ [](/\ ~(visible._memLabel /\ visible._memPieChartArea)
          /\ ~(visible._gpuLabel /\ visible._gpuPieChartArea)
          /\ ~(visible._fanLabel /\ visible._fanPieChartArea))
    /\ [][ (appended' # appended /\ DisplaySettingsChanged) =>
             /\ visible'._memPieChartArea
                    = (props'.show_memory /\ props'.memory_display_mode = "pie")
             /\ visible'._memLabel
                    = (props'.show_memory /\ props'.memory_display_mode # "pie")
             /\ visible'._gpuPieChartArea
                    = (props'.show_gpu_util /\ props'.gpu_display_mode = "pie")
             /\ visible'._gpuLabel
                    = (props'.show_gpu_util /\ props'.gpu_display_mode # "pie")
             /\ visible'._fanPieChartArea
                    = (props'.show_fan_speed /\ props'.fan_display_mode = "pie")
             /\ visible'._fanLabel
                    = (props'.show_fan_speed /\ props'.fan_display_mode # "pie") ]_vars

\* a display setting has changed and the display was drawn anew: memory as a
\* pie, GPU as text, the fan not shown
C36_Witness ==
    /\ last.op = "display"
    /\ props.show_memory /\ props.memory_display_mode = "pie"
    /\ props.show_gpu_util /\ props.gpu_display_mode = "text"
    /\ ~props.show_fan_speed
    /\ visible._memPieChartArea /\ ~visible._memLabel
    /\ visible._gpuLabel /\ ~visible._gpuPieChartArea
    /\ ~visible._fanLabel /\ ~visible._fanPieChartArea

\* C37: a parse_and_display that got to the display leaves each separator
\* visible exactly when a visible section lies on both of its sides, and the
\* placeholder label visible when no section is enabled.
C37_Separators ==
    [][ (appended' # appended /\ DisplaySettingsChanged) =>
          LET temp == props'.show_temp
              mem == visible'._memLabel \/ visible'._memPieChartArea
              gpu == visible'._gpuLabel \/ visible'._gpuPieChartArea
              fan == visible'._fanLabel \/ visible'._fanPieChartArea
          IN /\ visible'._sep1 = (temp /\ (mem \/ gpu \/ fan))
             /\ visible'._sep2 = (mem /\ (gpu \/ fan))
             /\ visible'._sep3 = (gpu /\ fan)
             /\ (~temp /\ ~mem /\ ~gpu /\ ~fan) =>
                    (visible'._label /\ label' = "Nvidia") ]_vars

\* the display was drawn with the temperature and the fan alone: the first
\* separator stands between them
C37_Witness ==
    /\ last.op = "display"
    /\ props.show_temp /\ ~props.show_memory /\ ~props.show_gpu_util
    /\ props.show_fan_speed
    /\ visible._label /\ visible._sep1 /\ ~visible._sep2 /\ ~visible._sep3
    /\ visible._fanLabel \/ visible._fanPieChartArea
====
